---- MODULE Spec2Model ----
(***************************************************************************)
(* Model of telemetry2kml.py: Telemetry2kmlConverter.clean_coordinates,    *)
(* interpolate_coordinates and set_calculated_values, run over one         *)
(* in-memory list of records (self.data).                                  *)
(*                                                                         *)
(* Numbers.  Coordinates are integers in units of the rounding grid of     *)
(* their axis (10^-xyzRounding[axis]), timestamps are integer seconds.  Python's None is the empty *)
(* sequence; a coordinate is the 3-tuple <<x, y, z>> = (lon, lat, elev).   *)
(* Positions in self.data are 0-based as in the code (enumerate without    *)
(* start), so data[index + 1] is self.data[index].                         *)
(***************************************************************************)
EXTENDS Integers, Sequences, FiniteSets, TLC

(***************************************************************************)
(* Bounds of the model.                                                    *)
(***************************************************************************)
MaxLen == 3

MaxDt == 1

(***************************************************************************)
(* Settings (self.settings, loaded from the YAML settings file).           *)
(***************************************************************************)
validSatRange == <<4, 12>>

xyzLimit == <<2, 2, 3>>

xyzDeltaLimit == <<2, 2, 1>>

(***************************************************************************)
(* Optional values.                                                        *)
(***************************************************************************)
None == <<>>

Some(v) == <<v>>

Abs(n) == IF n < 0 THEN -n ELSE n

Axes == 1..3

(***************************************************************************)
(* Input rows, as read_csv leaves them in self.data.  GPS is the string    *)
(* "lat lon" held as the pair <<lat, lon>>; "Vario Alt(m)" is None when    *)
(* the column is absent or empty.  A row without a usable fix (satellite   *)
(* count outside the valid range) carries the logger's zero position.      *)
(***************************************************************************)
SatsValues == {validSatRange[1], validSatRange[1] + 1, validSatRange[2]}

GPSValues == {<<0, 0>>, <<0, 1>>, <<0, 2>>, <<1, 0>>}

AltValues == {[gps |-> 1, vario |-> None], [gps |-> 1, vario |-> Some(2)]}

ZeroFix == <<0, 0>>

RowSpecs ==
    [sats : {s \in SatsValues : validSatRange[1] < s /\ s < validSatRange[2]},
     gps : GPSValues, alt : AltValues, dt : 0..MaxDt]
    \cup
    [sats : {s \in SatsValues : ~(validSatRange[1] < s /\ s < validSatRange[2])},
     gps : {ZeroFix}, alt : {[gps |-> 0, vario |-> None]}, dt : 0..MaxDt]

RECURSIVE TimeOf(_, _)
\* Timestamp of row i: the first row is at second 0, every later row dt
\* seconds after its predecessor (timestamps are non-decreasing).
TimeOf(f, i) == IF i = 1 THEN 0 ELSE TimeOf(f, i - 1) + f[i].dt

\* One record of self.data as read_csv builds it (lines 74): the CSV fields
\* only; the fields the pipeline adds later are still unset.
Row(f, i) ==
    [Time |-> TimeOf(f, i),
     Sats |-> f[i].sats,
     GPS |-> f[i].gps,
     GPSAlt |-> f[i].alt.gps,
     VarioAlt |-> f[i].alt.vario,
     Index |-> 0,
     DateTime |-> None,
     Coordinates |-> None,
     Description |-> "",
     Interpolated |-> None,
     Height |-> None]

\* self.data for the row choices f, a function on 1..n.
DataOf(f, n) == [i \in 1..n |-> Row(f, i)]

\* read_csv asserts len(self.data) > 0 ('No data found', line 78), so the
\* pipeline only ever starts on a non-empty list.
IsInput(d) ==
    \E n \in 1..MaxLen : \E f \in [1..n -> RowSpecs] :
        f[1].dt = 0 /\ d = DataOf(f, n)

(***************************************************************************)
(* clean_coordinates, first loop (lines 105-120): the validity filter.     *)
(***************************************************************************)
\* Mutant of SatsValid: the bounds taken as inclusive.
SatsValid_Inclusive(sats) == validSatRange[1] <= sats /\ sats <= validSatRange[2]

\* validSatRange[0] < record["Sats"] < validSatRange[1]
SatsValid(sats) == validSatRange[1] < sats /\ sats < validSatRange[2]

\* float(record.get("Vario Alt(m)") or record.get("GPS Alt(m)"))
Elevation(record) ==
    IF record.VarioAlt # None THEN record.VarioAlt[1] ELSE record.GPSAlt

\* record["GPS"].split(' ')[1::-1] + [elevation]: "lat lon" becomes
\* [lon, lat, elevation].
RawCoordinates(record) == <<record.GPS[2], record.GPS[1], Elevation(record)>>

\* datetime.strptime of the row's Date and Time: seconds on the model's clock.
ParseDateTime(record) == Some(record.Time)

FilterRecord(record, index) ==
    [record EXCEPT
        !.Index = index,
        !.DateTime = ParseDateTime(record),
        !.Description = IF SatsValid(record.Sats) THEN "Valid GPS"
                        ELSE "Bad Satellite count",
        !.Coordinates = IF SatsValid(record.Sats) THEN RawCoordinates(record)
                        ELSE None]

\* enumerate(self.data, start=1)
FilterAll(d) == [i \in 1..Len(d) |-> FilterRecord(d[i], i)]

(***************************************************************************)
(* np.median per axis over the records with coordinates (lines 122-124).   *)
(* The median of an even number of values is the mean of the two middle    *)
(* ones, so the model keeps TWICE the median, an integer.  The median of   *)
(* no values is nan, modelled as None: every comparison with it is false.  *)
(***************************************************************************)
\* The k-th smallest (k from 1) of the values vals[i], i in the index set I.
Kth(vals, I, k) ==
    CHOOSE v \in {vals[i] : i \in I} :
        /\ Cardinality({i \in I : vals[i] < v}) < k
        /\ Cardinality({i \in I : vals[i] <= v}) >= k

Median2(vals, I) ==
    LET n == Cardinality(I) IN
    IF n = 0 THEN None
    ELSE IF n % 2 = 1 THEN Some(2 * Kth(vals, I, (n + 1) \div 2))
    ELSE Some(Kth(vals, I, n \div 2) + Kth(vals, I, n \div 2 + 1))

Valid(d) == {i \in 1..Len(d) : d[i].Coordinates # None}

MedianCoords(d) ==
    [a \in Axes |-> Median2([i \in 1..Len(d) |->
                                IF d[i].Coordinates # None
                                THEN d[i].Coordinates[a] ELSE 0], Valid(d))]

(***************************************************************************)
(* clean_coordinates, second loop (lines 128-201): the rejection pass.     *)
(***************************************************************************)
\* abs(coord - median) >= xyzLimit on any axis (lines 134-136), on doubled
\* values; a nan median compares false.
TooFarFromMedian(coords, med2) ==
    \E a \in Axes :
        /\ med2[a] # None
        /\ Abs(2 * coords[a] - med2[a][1]) >= 2 * xyzLimit[a]

\* Python truth value of last_good_coord_index in "last_good_coord_index and
\* ..." (lines 142, 149): None is false, and so is the integer 0.
Truthy(lastGood) == lastGood # None /\ lastGood[1] # 0

\* self.data[last_good_coord_index]['Coordinates'][:2] == record['Coordinates'][:2]
SamePlanar(c1, c2) == <<c1[1], c1[2]>> = <<c2[1], c2[2]>>

\* (record['DateTime'] - self.data[last_good_coord_index]['DateTime']).total_seconds()
ElapsedSeconds(record, last) == record.DateTime[1] - last.DateTime[1]

\* abs(delta / seconds) >= xyzDeltaLimit on any axis (lines 152-158), for
\* seconds # 0: abs(delta) / abs(seconds) >= limit.
SpeedExceeded(coords, lastCoords, seconds) ==
    \E a \in Axes :
        Abs(coords[a] - lastCoords[a]) >= xyzDeltaLimit[a] * Abs(seconds)

\* Which branch of the if/elif chain of lines 132-201 the record at position
\* index takes: "skip" (no coordinate), "median", "duplicate", "raise" (the
\* division of line 152-156 by zero seconds), "speed", or "accept".
Verdict(d, index, lastGood, med2) ==
    LET record == d[index + 1]
        coords == record.Coordinates
        last == d[lastGood[1] + 1]
    IN  IF coords = None THEN "skip"
        ELSE IF TooFarFromMedian(coords, med2) THEN "median"
        ELSE IF Truthy(lastGood) /\ SamePlanar(last.Coordinates, coords)
             THEN "duplicate"
        ELSE IF Truthy(lastGood) /\ ElapsedSeconds(record, last) = 0
             THEN "raise"
        ELSE IF Truthy(lastGood)
                /\ SpeedExceeded(coords, last.Coordinates,
                                 ElapsedSeconds(record, last))
             THEN "speed"
        ELSE "accept"

Rejections == {"median", "duplicate", "speed"}

ReasonOf(verdict) ==
    CASE verdict = "median" -> "Too far from median location"
      [] verdict = "duplicate" -> "Duplicate location"
      [] verdict = "speed" -> "Impossible speed"

\* The record after its iteration of the loop.
Judge(record, verdict) ==
    IF verdict \in Rejections
    THEN [record EXCEPT !.Description = ReasonOf(verdict), !.Coordinates = None]
    ELSE record

\* Mutant of NextLastGood: the reference advances past a duplicate as well,
\* as if the checks ran against the previous fix.
NextLastGood_PastDuplicate(lastGood, index, verdict) ==
    IF verdict \in {"accept", "duplicate"} THEN Some(index) ELSE lastGood

\* last_good_coord_index after the iteration (line 201).
NextLastGood(lastGood, index, verdict) ==
    IF verdict = "accept" THEN Some(index) ELSE lastGood

(***************************************************************************)
(* clean_coordinates, boundary trim (lines 205-210).                       *)
(***************************************************************************)
\* Mutant of Trim: only the leading records without a coordinate are dropped.
Trim_StartOnly(d) ==
    LET lo == CHOOSE i \in Valid(d) : \A j \in Valid(d) : i <= j
    IN  SubSeq(d, lo, Len(d))

\* while self.data[0]["Coordinates"] is None: self.data.pop(0)
\* while self.data[-1]["Coordinates"] is None: self.data.pop(-1)
\* With no coordinate left the first loop empties the list and self.data[0]
\* raises IndexError; otherwise both loops stop at a coordinate.
Trim(d) ==
    LET lo == CHOOSE i \in Valid(d) : \A j \in Valid(d) : i <= j
        hi == CHOOSE i \in Valid(d) : \A j \in Valid(d) : j <= i
    IN  SubSeq(d, lo, hi)

(***************************************************************************)
(* Exact rational arithmetic for the interpolant: <<n, d>> with d > 0, in  *)
(* lowest terms.                                                           *)
(***************************************************************************)
RECURSIVE GCD(_, _)
GCD(a, b) == IF b = 0 THEN a ELSE GCD(b, a % b)

Q(n, d) ==
    LET g == GCD(Abs(n), Abs(d))
        sgn == IF d < 0 THEN -1 ELSE 1
    IN  <<(sgn * n) \div g, (sgn * d) \div g>>

QAdd(p, q) == Q(p[1] * q[2] + q[1] * p[2], p[2] * q[2])

QSub(p, q) == Q(p[1] * q[2] - q[1] * p[2], p[2] * q[2])

QMul(p, q) == Q(p[1] * q[1], p[2] * q[2])

QDiv(p, q) == Q(p[1] * q[2], p[2] * q[1])

QInt(n) == <<n, 1>>

QSign(p) == IF p[1] > 0 THEN 1 ELSE IF p[1] < 0 THEN -1 ELSE 0

QAbs(p) == <<Abs(p[1]), p[2]>>

QGreater(p, q) == p[1] * q[2] > q[1] * p[2]

(***************************************************************************)
(* scipy.interpolate.PchipInterpolator over the anchors (xs[k], ys[k]),    *)
(* k in 1..n, xs strictly increasing (lines 229-235, 253).                 *)
(***************************************************************************)
\* hk = x[1:] - x[:-1]; mk = (y[1:] - y[:-1]) / hk
Hk(xs, k) == xs[k + 1] - xs[k]

Mk(xs, ys, k) == Q(ys[k + 1] - ys[k], Hk(xs, k))

\* _edge_case(h0, h1, m0, m1): the one-sided three-point estimate, limited
\* to preserve shape.
EdgeCase(h0, h1, m0, m1) ==
    LET d == QDiv(QSub(QMul(QInt(2 * h0 + h1), m0), QMul(QInt(h0), m1)),
                  QInt(h0 + h1))
    IN  IF QSign(d) # QSign(m0) THEN QInt(0)
        ELSE IF QSign(m0) # QSign(m1)
                /\ QGreater(QAbs(d), QMul(QInt(3), QAbs(m0)))
             THEN QMul(QInt(3), m0)
        ELSE d

\* _find_derivatives: the slope at anchor k.
Dk(xs, ys, k) ==
    LET n == Len(xs) IN
    IF n = 2 THEN Mk(xs, ys, 1)
    ELSE IF k = 1
         THEN EdgeCase(Hk(xs, 1), Hk(xs, 2), Mk(xs, ys, 1), Mk(xs, ys, 2))
    ELSE IF k = n
         THEN EdgeCase(Hk(xs, n - 1), Hk(xs, n - 2),
                       Mk(xs, ys, n - 1), Mk(xs, ys, n - 2))
    ELSE LET m0 == Mk(xs, ys, k - 1)
             m1 == Mk(xs, ys, k)
             w1 == 2 * Hk(xs, k) + Hk(xs, k - 1)
             w2 == Hk(xs, k) + 2 * Hk(xs, k - 1)
         IN  IF QSign(m0) # QSign(m1) \/ QSign(m0) = 0 \/ QSign(m1) = 0
             THEN QInt(0)
             ELSE QDiv(QInt(w1 + w2),
                       QAdd(QDiv(QInt(w1), m0), QDiv(QInt(w2), m1)))

\* The interval whose cubic is evaluated at time t: the one holding t, and
\* the first or last one outside the anchors (extrapolate is on by default).
Interval(xs, t) ==
    LET n == Len(xs) IN
    IF t < xs[1] THEN 1
    ELSE IF t >= xs[n] THEN n - 1
    ELSE CHOOSE j \in 1..(n - 1) : xs[j] <= t /\ t < xs[j + 1]

\* The cubic Hermite interpolant at time t.
Pchip(xs, ys, t) ==
    LET k == Interval(xs, t)
        h == QInt(Hk(xs, k))
        u == Q(t - xs[k], Hk(xs, k))
        u2 == QMul(u, u)
        u3 == QMul(u2, u)
        h00 == QAdd(QSub(QMul(QInt(2), u3), QMul(QInt(3), u2)), QInt(1))
        h10 == QAdd(QSub(u3, QMul(QInt(2), u2)), u)
        h01 == QSub(QMul(QInt(3), u2), QMul(QInt(2), u3))
        h11 == QSub(u3, u2)
    IN  QAdd(QAdd(QMul(h00, QInt(ys[k])),
                  QMul(QMul(h10, h), Dk(xs, ys, k))),
             QAdd(QMul(h01, QInt(ys[k + 1])),
                  QMul(QMul(h11, h), Dk(xs, ys, k + 1))))

\* round(value, xyzRounding[axis]) (line 258), in units of the rounding
\* grid: Python rounds an exact half to the even neighbour.
PyRound(q) ==
    LET fl == q[1] \div q[2]
        rem2 == 2 * (q[1] - fl * q[2])
    IN  IF rem2 < q[2] THEN fl
        ELSE IF rem2 > q[2] THEN fl + 1
        ELSE IF fl % 2 = 0 THEN fl ELSE fl + 1

(***************************************************************************)
(* interpolate_coordinates (lines 212-262).                                *)
(***************************************************************************)
\* datetime.timestamp(dt): POSIX seconds; the model's clock already counts
\* seconds, from the first row.
datetime_to_float(dt) == dt[1]

\* Mutant of MarkInterpolated: the test inverted.
MarkInterpolated_Inverted(record) ==
    [record EXCEPT !.Interpolated = Some(record.Coordinates # None)]

\* record["Interpolated"] = record['Coordinates'] is None (lines 217-218)
MarkInterpolated(record) ==
    [record EXCEPT !.Interpolated = Some(record.Coordinates = None)]

\* The position in d of the k-th record that has coordinates.
NthValid(d, k) ==
    CHOOSE i \in Valid(d) : Cardinality({j \in Valid(d) : j < i}) = k - 1

\* txyz_good[:, 0] and txyz_good[:, axis] (lines 220-226)
GoodTimes(d) ==
    [k \in 1..Cardinality(Valid(d)) |->
        datetime_to_float(d[NthValid(d, k)].DateTime)]

GoodCoords(d, a) ==
    [k \in 1..Cardinality(Valid(d)) |-> d[NthValid(d, k)].Coordinates[a]]

\* np.vstack of an empty list raises ValueError; PchipInterpolator raises
\* ValueError unless x has at least 2 elements and is strictly increasing.
PchipAccepts(xs) ==
    /\ Len(xs) >= 2
    /\ \A k \in 1..(Len(xs) - 1) : xs[k] < xs[k + 1]

\* Lines 253-260: the rounded interpolant at the record's time, per axis.
InterpolatedCoords(d, record) ==
    LET t == datetime_to_float(record.DateTime)
        xs == GoodTimes(d)
    IN  <<PyRound(Pchip(xs, GoodCoords(d, 1), t)),
          PyRound(Pchip(xs, GoodCoords(d, 2), t)),
          PyRound(Pchip(xs, GoodCoords(d, 3), t))>>

\* Only the records of interp_indices (not record['Coordinates']) are written.
FillRecord(d, record) ==
    IF record.Coordinates = None
    THEN [record EXCEPT !.Coordinates = InterpolatedCoords(d, record)]
    ELSE record

Fill(d) == [i \in 1..Len(d) |-> FillRecord(d, d[i])]

(***************************************************************************)
(* set_calculated_values (lines 264-279).                                  *)
(***************************************************************************)
\* assert any([record['Coordinates'] for record in self.data])
AnyCoordinates(d) == \E i \in 1..Len(d) : d[i].Coordinates # None

MinOf(S) == CHOOSE v \in S : \A w \in S : v <= w

MaxOf(S) == CHOOSE v \in S : \A w \in S : w <= v

\* [[min, max] per axis] over all records (lines 271-273)
CoordinateRanges(d) ==
    [a \in Axes |->
        <<MinOf({d[i].Coordinates[a] : i \in 1..Len(d)}),
          MaxOf({d[i].Coordinates[a] : i \in 1..Len(d)})>>]

\* Mutant of HeightAboveGround: a secondary altitude value is used as the
\* height itself.
HeightAboveGround_VarioOverride(record, ranges) ==
    IF record.VarioAlt # None THEN record.VarioAlt[1]
    ELSE record.Coordinates[3] - ranges[3][1]

\* record['Coordinates'][2] - self.coordinate_ranges[2][0] (line 279)
HeightAboveGround(record, ranges) == record.Coordinates[3] - ranges[3][1]

SetHeights(d, ranges) ==
    [i \in 1..Len(d) |->
        [d[i] EXCEPT !.Height = Some(HeightAboveGround(d[i], ranges))]]

(***************************************************************************)
(* The converter as a state machine: the calls of the main block (lines    *)
(* 345-351) on one converter object.                                       *)
(***************************************************************************)
VARIABLES
    data,                   \* self.data
    coordinate_ranges,      \* self.coordinate_ranges
    median_coords,          \* local of clean_coordinates
    last_good_coord_index,  \* local of clean_coordinates
    index,                  \* loop position of the rejection pass
    pc,                     \* where the run stands
    error,                  \* the exception that ended the run, "" if none
    run,                    \* 1: first pass over the input, 2: the rerun
    first                   \* self.data as the first pass left it

vars == <<data, coordinate_ranges, median_coords, last_good_coord_index,
          index, pc, error, run, first>>

Init ==
    /\ IsInput(data)
    /\ coordinate_ranges = None
    /\ median_coords = None
    /\ last_good_coord_index = None
    /\ index = 0
    /\ pc = "clean"
    /\ error = ""
    /\ run = 1
    /\ first = None

\* Lines 105-128: the validity filter over every record, the medians, and
\* the start of the rejection pass.
clean_coordinates_filter ==
    /\ pc = "clean"
    /\ data' = FilterAll(data)
    /\ median_coords' = MedianCoords(data')
    /\ last_good_coord_index' = None
    /\ index' = 0
    /\ pc' = "reject"
    /\ UNCHANGED <<coordinate_ranges, error, run, first>>

\* Lines 129-201: one iteration of the rejection pass.
clean_coordinates_reject ==
    /\ pc = "reject"
    /\ index < Len(data)
    /\ LET verdict == Verdict(data, index, last_good_coord_index, median_coords)
       IN  IF verdict = "raise"
           THEN /\ pc' = "failed"
                /\ error' = "ZeroDivisionError"
                /\ UNCHANGED <<data, last_good_coord_index, index>>
           ELSE /\ data' = [data EXCEPT ![index + 1] = Judge(@, verdict)]
                /\ last_good_coord_index' =
                       NextLastGood(last_good_coord_index, index, verdict)
                /\ index' = index + 1
                /\ UNCHANGED <<pc, error>>
    /\ UNCHANGED <<coordinate_ranges, median_coords, run, first>>

\* Lines 205-210: the boundary trim, after the last iteration.
clean_coordinates_trim ==
    /\ pc = "reject"
    /\ index = Len(data)
    /\ IF Valid(data) = {}
       THEN /\ data' = <<>>
            /\ pc' = "failed"
            /\ error' = "IndexError"
       ELSE /\ data' = Trim(data)
            /\ pc' = "interpolate"
            /\ UNCHANGED error
    /\ median_coords' = None
    /\ last_good_coord_index' = None
    /\ index' = 0
    /\ UNCHANGED <<coordinate_ranges, run, first>>

\* Lines 212-262 and, through the call of line 262, lines 264-279.
interpolate_coordinates ==
    /\ pc = "interpolate"
    /\ LET marked == [i \in 1..Len(data) |-> MarkInterpolated(data[i])]
       IN  IF ~PchipAccepts(GoodTimes(marked))
           THEN /\ data' = marked
                /\ pc' = "failed"
                /\ error' = "ValueError"
                /\ UNCHANGED coordinate_ranges
           ELSE LET filled == Fill(marked)
                IN  IF ~AnyCoordinates(filled)
                    THEN /\ data' = filled
                         /\ pc' = "failed"
                         /\ error' = "No Valid GPS Coordinates found"
                         /\ UNCHANGED coordinate_ranges
                    ELSE /\ coordinate_ranges' = CoordinateRanges(filled)
                         /\ data' = SetHeights(filled, coordinate_ranges')
                         /\ pc' = "done"
                         /\ UNCHANGED error
    /\ UNCHANGED <<median_coords, last_good_coord_index, index, run, first>>

\* The pipeline run again on its own output: clean_coordinates and
\* interpolate_coordinates called a second time on the same object.
rerun ==
    /\ pc = "done"
    /\ run = 1
    /\ first' = data
    /\ run' = 2
    /\ pc' = "clean"
    /\ UNCHANGED <<data, coordinate_ranges, median_coords,
                   last_good_coord_index, index, error>>

Next ==
    \/ clean_coordinates_filter
    \/ clean_coordinates_reject
    \/ clean_coordinates_trim
    \/ interpolate_coordinates
    \/ rerun

Spec == Init /\ [][Next]_vars

(***************************************************************************)
(* Properties.                                                             *)
(***************************************************************************)
Positions == 1..Len(data)

HasCoordinate(i) == data[i].Coordinates # None

\* i and j are consecutive among the records that hold a coordinate.
ConsecutiveAccepted(i, j) ==
    /\ i < j
    /\ HasCoordinate(i)
    /\ HasCoordinate(j)
    /\ \A k \in Positions : (i < k /\ k < j) => ~HasCoordinate(k)

InRange(sats) == validSatRange[1] < sats /\ sats < validSatRange[2]

\* C1: after clean_coordinates, any two records that are consecutive among
\* the accepted ones (coordinate still set) differ in their planar
\* (longitude, latitude) coordinates, the first record of the input included.
C1_NoAdjacentDuplicates ==
    pc = "interpolate" =>
        \A i, j \in Positions :
            ConsecutiveAccepted(i, j) =>
                \/ data[i].Coordinates[1] # data[j].Coordinates[1]
                \/ data[i].Coordinates[2] # data[j].Coordinates[2]

\* The case of C2: the rejection pass is about to judge a record that has a
\* coordinate, passes the median test, is no planar duplicate of the last
\* accepted record, and moved too fast on some axis since that record.
C2_Case ==
    /\ pc = "reject"
    /\ index < Len(data)
    /\ last_good_coord_index # None
    /\ LET record == data[index + 1]
           last == data[last_good_coord_index[1] + 1]
           seconds == record.DateTime[1] - last.DateTime[1]
       IN  /\ record.Coordinates # None
           /\ \A a \in Axes :
                  Abs(2 * record.Coordinates[a] - median_coords[a][1])
                      < 2 * xyzLimit[a]
           /\ \/ record.Coordinates[1] # last.Coordinates[1]
              \/ record.Coordinates[2] # last.Coordinates[2]
           /\ seconds > 0
           /\ \E a \in Axes :
                  Abs(record.Coordinates[a] - last.Coordinates[a])
                      >= xyzDeltaLimit[a] * seconds

\* C2: whenever a last accepted record exists, at any position, a record in
\* the case above loses its coordinate and is described as "Impossible speed".
C2_ImpossibleSpeedRejected ==
    [][C2_Case =>
        /\ data'[index + 1].Coordinates = None
        /\ data'[index + 1].Description = "Impossible speed"]_vars

\* C3 as claimed: after set_calculated_values a record with a secondary
\* altitude value has that value as its height above ground, any other record
\* its elevation minus the minimum elevation of the trajectory.
C3_HeightFromSecondaryAltitude ==
    pc = "done" =>
        \A i \in Positions :
            IF data[i].VarioAlt # None
            THEN data[i].Height = Some(data[i].VarioAlt[1])
            ELSE data[i].Height =
                     Some(data[i].Coordinates[3] - coordinate_ranges[3][1])

\* C3 as amended: after set_calculated_values every record, with or without
\* a secondary altitude value, has as its height above ground its elevation
\* minus coordinate_ranges[2][0], which is the least elevation over all
\* records of the final trajectory.
C3_HeightRelativeToMinimum ==
    pc = "done" =>
        /\ \A i \in Positions : coordinate_ranges[3][1] <= data[i].Coordinates[3]
        /\ \E i \in Positions : coordinate_ranges[3][1] = data[i].Coordinates[3]
        /\ \A i \in Positions :
               data[i].Height =
                   Some(data[i].Coordinates[3] - coordinate_ranges[3][1])

\* Witness of C3: a finished run with a measured record whose secondary
\* altitude value is not its height, beside a record with no such value.
C3_Witness ==
    /\ pc = "done"
    /\ \E i, j \in Positions :
           /\ data[i].VarioAlt # None
           /\ data[i].Interpolated = Some(FALSE)
           /\ data[i].Height # Some(data[i].VarioAlt[1])
           /\ data[j].VarioAlt = None
           /\ data[j].Height # None

\* C4: when no record of the input obtains a valid coordinate, the run ends
\* in the failure 'No Valid GPS Coordinates found' and in no other one.
C4_DescriptiveFailure ==
    (pc = "failed" /\ ~(\E i \in Positions : HasCoordinate(i)))
        => error = "No Valid GPS Coordinates found"

\* C5: on an input with non-decreasing timestamps of which at least two
\* records are accepted, the rejection pass never ends the run with an
\* error, also not for a record as old as the last accepted one.
C5_RejectionPassCompletes ==
    (pc = "failed" /\ Cardinality({i \in 1..index : HasCoordinate(i)}) >= 2)
        => error # "ZeroDivisionError"

\* C6: after clean_coordinates and interpolate_coordinates every interpolated
\* record lies strictly between two records that are not interpolated, and the
\* first and the last record are not interpolated.
C6_InterpolatedStrictlyInside ==
    pc = "done" =>
        /\ data[1].Interpolated = Some(FALSE)
        /\ data[Len(data)].Interpolated = Some(FALSE)
        /\ \A i \in Positions :
               data[i].Interpolated = Some(TRUE) =>
                   /\ \E j \in Positions : j < i /\ data[j].Interpolated = Some(FALSE)
                   /\ \E k \in Positions : i < k /\ data[k].Interpolated = Some(FALSE)

\* Witness of C6: a finished run with an interpolated record.
C6_Witness ==
    /\ pc = "done"
    /\ \E i \in Positions :
           data[i].Interpolated = Some(TRUE) /\ data[i].Coordinates # None

\* C7: when the pipeline has run a second time on its own output, the
\* trajectory is the one the first run left: the same records with the same
\* Index, Coordinates, Interpolated, Point Description and Height above Ground.
C7_Idempotent ==
    (pc = "done" /\ run = 2) =>
        /\ Len(data) = Len(first)
        /\ \A i \in Positions :
               /\ data[i].Index = first[i].Index
               /\ data[i].Coordinates = first[i].Coordinates
               /\ data[i].Interpolated = first[i].Interpolated
               /\ data[i].Description = first[i].Description
               /\ data[i].Height = first[i].Height

\* C8: the validity filter sets a coordinate exactly for the records whose
\* satellite count is strictly inside validSatRange, the others are described
\* as 'Bad Satellite count', and no later step gives one of them a measured
\* coordinate: a record that is not interpolated has its count in the range.
C8_SatelliteBound ==
    \A i \in Positions :
        /\ (pc = "reject" /\ index = 0) =>
               (HasCoordinate(i) <=> InRange(data[i].Sats))
        /\ (pc \in {"reject", "interpolate"} /\ HasCoordinate(i)) =>
               InRange(data[i].Sats)
        /\ (pc # "clean" /\ data[i].Interpolated = Some(FALSE)) =>
               InRange(data[i].Sats)
        /\ (pc # "clean" /\ ~InRange(data[i].Sats)) =>
               data[i].Description = "Bad Satellite count"

\* Witness of C8: a finished run that kept a record with a satellite count on
\* a bound of the range, filled by interpolation.
C8_Witness ==
    /\ pc = "done"
    /\ \E i \in Positions :
           /\ data[i].Sats \in {validSatRange[1], validSatRange[2]}
           /\ data[i].Interpolated = Some(TRUE)
           /\ data[i].Description = "Bad Satellite count"

\* The positions (0-based) already judged by the rejection pass that kept
\* their coordinate.
AcceptedSoFar == {p \in 0..(index - 1) : HasCoordinate(p + 1)}

C10_InterpolateFillsOnlyGaps ==
    [][(pc = "interpolate" /\ pc' = "done") =>
        /\ Len(data') = Len(data)
        /\ \A i \in Positions :
               /\ data'[i].Index = data[i].Index
               /\ data'[i].DateTime = data[i].DateTime
               /\ data[i].Coordinates # None =>
                      data'[i].Coordinates = data[i].Coordinates
               /\ data'[i].Interpolated = Some(data[i].Coordinates = None)
               /\ data'[i].Coordinates # None]_vars

\* Witness of C10: a finished run with a filled record beside an anchor.
C10_Witness ==
    /\ pc = "done"
    /\ \E i, j \in Positions :
           /\ data[i].Interpolated = Some(TRUE)
           /\ Len(data[i].Coordinates) = 3
           /\ data[j].Interpolated = Some(FALSE)
           /\ data[j].Coordinates = RawCoordinates(data[j])

====
